---- MODULE Spec2Model ----
(***************************************************************************)
(* Brookline download / upload pipeline: the downloader                    *)
(* (brookline_downloader.py), the uploader (brookline_uploader.py) and the *)
(* manager (brookline_manager.py).                                         *)
(*                                                                         *)
(* Time is the wall clock in seconds.  Event ids are numbers; the page     *)
(* lists them in ascending order.  A browser tab handle is the pair        *)
(* <<session, n>>: n = 0 is the tab the driver starts with.                *)
(***************************************************************************)
EXTENDS Integers, Sequences, FiniteSets, TLC

\* ------------------------------------------------------------- bounds
MaxEvents == 2
PoolEvents == 11
NumDownloaders == 2
MaxSessions == 2
MaxTicks == 1
MaxFiles == 2
NumUploaders == 2
MaxJobs == 3
MaxIds == 10
MaxWait == 7200

\* -------------------------------------------------- program constants
LookbackDays == 14
SecondsPerDay == 86400
MaxTabs == 10
CleanupEvery == 10
DownloadTtl == 300

DefaultMonth == 6
QuietPeriod == 300
UploadTtl == 720
MaxUploadTabs == 10
max_concurrent == 10
UploadCleanupEvery == 3
max_cleanup_rounds == 20
PollSeconds == 30
SyncHours == 6

\* Dates are seconds from 1 January 00:00 of one (non-leap) year.
DaysBefore == <<0, 31, 59, 90, 120, 151, 181, 212, 243, 273, 304, 334>>

DaysIn == <<31, 28, 31, 30, 31, 30, 31, 31, 30, 31, 30, 31>>

Months == 1..12

Midnight(month, day) == (DaysBefore[month] + day - 1) * SecondsPerDay

\* 20 June, 00:00
Today == Midnight(6, 20)

Downloaders == 1..NumDownloaders

Uploaders == 1..NumUploaders

\* The normalized files <folder>/corrected_format/*.mp4 under the uploader's
\* watch_path, by number.
Videos == 1..MaxFiles

\* A file that does not exist, and a file holding the given lines.
NoFile == [exists |-> FALSE, lines |-> <<>>]

File(lines) == [exists |-> TRUE, lines |-> lines]

\* No date: the listing shows none, or its text does not yield one.
NoDate == 0 - 1

\* The keys of month_map, and the month names of a page that writes them in
\* title case.
MonthKeys == <<"JAN", "FEB", "MAR", "APR", "MAY", "JUN", "JUL", "AUG", "SEP", "OCT", "NOV", "DEC">>

TitleCase == <<"Jan", "Feb", "Mar", "Apr", "May", "Jun", "Jul", "Aug", "Sep", "Oct", "Nov", "Dec">>

Styles == {"upper", "title"}

\* The text of a listing that shows no date.
NoText == [month_name |-> "", day |-> 0]

MonthOf(date) ==
    CHOOSE m \in Months : /\ Midnight(m, 1) <= date
                          /\ date < Midnight(m, DaysIn[m]) + SecondsPerDay

\* The page's text for an event held on the given date.
Render(date, style) ==
    IF date = NoDate THEN NoText
    ELSE LET m == MonthOf(date) IN
         [month_name |-> IF style = "upper" THEN MonthKeys[m] ELSE TitleCase[m],
          day |-> ((date - Midnight(m, 1)) \div SecondsPerDay) + 1]

VARIABLES
    now,                 \* time.time() / datetime.now()
    ticks,               \* number of clock steps taken (bounds the clock)
    catalog,             \* events listed on the page, with
    source_date,         \*   the date each event was held (midnight), or NoDate
    element_text,        \*   the month name and day each listing shows, or NoText
    script_dir,          \* the directory that holds the scripts: Path(__file__).parent
    roundtrip,           \* a set of ids and of paths, as saved to the ledger files and loaded
    downloaded_file,     \* govideosav/downloaded_events.txt: NoFile or its lines
    raw,                 \* per event: its download folder and raw artifact
    converted,           \* per event: its corrected_format output
    pc,                  \* per downloader: position in run_download_scan
    downloaded_events,   \* per downloader: self.downloaded_events
    downloading_tabs,    \* per downloader: self.downloading_tabs
    window_handles,      \* per downloader: self.driver.window_handles
    recent_events,       \* per downloader: the candidates of the running scan
    idx,                 \* per downloader: the loop index i of the running scan
    session,             \* per downloader: drivers started so far
    watch,               \* per video under watch_path: NoVideo or its size and mtime
    upload_log_file,     \* uploaded_files.json: NoFile or its 'uploaded_files' list
    accepted,            \* videos whose upload the Cablecast server has completed
    upc,                 \* per uploader: position in upload_session
    uploaded_files,      \* per uploader: self.uploaded_files
    uploading_tabs,      \* per uploader: self.uploading_tabs
    upload_handles,      \* per uploader: self.driver.window_handles
    files_to_upload,     \* per uploader: the files of the running session
    uidx,                \* per uploader: the loop index i of the running session
    cleanup_rounds,      \* per uploader: cleanup_rounds of the final wait
    usession,            \* per uploader: drivers started so far
    published,           \* history: per video, recordings in the publish ledger so far
    scanned,             \* history: the last find_files_to_upload run and what it saw
    running,             \* the manager's self.running
    jobs,                \* the schedule module's job list: per job its thread and next run time
    flow,                \* per thread of the manager: its position
    scan_outcome,        \* per thread of the manager: how its last run_download_scan ended
    acquired,            \* history: per event, downloads initiated so far
    reclaimed,           \* history: slots the last cleanup_old_download_tabs run reclaimed
    transcoded,          \* history: inputs the last process_downloaded_files run handed to ffmpeg
    convert_success,     \* history: events for which its convert_video call returned True
    attempt              \* history: the last process_single_meeting call and what it returned

envVars == <<now, ticks, catalog, source_date, element_text, script_dir, roundtrip>>
fsVars == <<downloaded_file, raw, converted>>
dlVars == <<pc, downloaded_events, downloading_tabs, window_handles, recent_events, idx, session>>
histVars == <<acquired, reclaimed, transcoded, convert_success, attempt>>
upVars == <<watch, upload_log_file, accepted, upc, uploaded_files, uploading_tabs,
            upload_handles, files_to_upload, uidx, cleanup_rounds, usession,
            published, scanned>>
mgrVars == <<running, jobs, flow, scan_outcome>>
vars == <<envVars, fsVars, dlVars, histVars, upVars, mgrVars>>

\* ------------------------------------------------------------ helpers
Range(s) == {s[k] : k \in 1..Len(s)}

Max(S) == CHOOSE x \in S : \A y \in S : y <= x

Min(S) == CHOOSE x \in S : \A y \in S : x <= y

RECURSIVE Ascending(_)
\* sorted(S)
Ascending(S) == IF S = {} THEN <<>> ELSE <<Min(S)>> \o Ascending(S \ {Min(S)})

RECURSIVE Descending(_)
\* reversed(meeting_elements): newest (highest id) first
Descending(S) == IF S = {} THEN <<>> ELSE <<Max(S)>> \o Descending(S \ {Max(S)})

\* ------------------------------------------------------ ledger storage
\* What the storage does with a rewrite of a ledger file: it takes it; or the file
\* cannot be opened for writing and stays as it was; or it is opened, which empties
\* it, and the write stops before the last line.
DiskOutcomes == {"ok", "unwritable", "truncated"}

\* with open(file, 'w') as f: write the lines.  An exception is caught by the
\* caller (save_downloaded_events, save_upload_history), which prints it.
write_file(old, lines, disk) ==
    IF disk = "ok" THEN File(lines)
    ELSE IF disk = "unwritable" THEN old
    ELSE File(SubSeq(lines, 1, Len(lines) - 1))

\* ------------------------------------------------------ acquire ledger
\* load_downloaded_events: the set of the file's lines; without a file the set stays
load_downloaded_events(file, current) ==
    IF file.exists THEN Range(file.lines) ELSE current

\* A variant of save_downloaded_events that opens the file for appending.
save_downloaded_events_append(events) == File(downloaded_file.lines \o Ascending(events))

\* save_downloaded_events: the file is rewritten, one line per id, sorted
save_downloaded_events(events) == File(Ascending(events))

\* ------------------------------------------------- the ledgers as text
\* An event id is the string of digits load_all_events takes from the element id;
\* a string is the sequence of its characters.
DigitChars == <<"0", "1", "2", "3", "4", "5", "6", "7", "8", "9">>

RECURSIVE Digits(_)
\* The decimal digits of n: the id of event n.
Digits(n) == IF n < 10 THEN <<DigitChars[n + 1]>> ELSE Digits(n \div 10) \o <<DigitChars[(n % 10) + 1]>>

\* The characters str.strip() removes.
Whitespace == {" ", "\n", "\t", "\r"}

\* The position of a digit in the character order.
Ord(c) == CHOOSE k \in 1..Len(DigitChars) : DigitChars[k] = c

RECURSIVE LexLeq(_, _)
\* a <= b for strings of digits, as sorted() compares them
LexLeq(a, b) ==
    IF a = <<>> THEN TRUE
    ELSE IF b = <<>> THEN FALSE
    ELSE IF a[1] # b[1] THEN Ord(a[1]) < Ord(b[1])
    ELSE LexLeq(Tail(a), Tail(b))

RECURSIVE Sorted(_)
\* sorted(self.downloaded_events)
Sorted(S) ==
    IF S = {} THEN <<>>
    ELSE LET m == CHOOSE x \in S : \A y \in S : LexLeq(x, y)
         IN  <<m>> \o Sorted(S \ {m})

RECURSIVE Concat(_)
\* The lines of a file one after the other.
Concat(lines) == IF lines = <<>> THEN <<>> ELSE Head(lines) \o Concat(Tail(lines))

\* save_downloaded_events, character by character: f.write(f"{event_id}\n") for
\* every id in sorted order
write_events(events) ==
    LET ids == Sorted(events)
    IN  Concat([k \in 1..Len(ids) |-> ids[k] \o <<"\n">>])

RECURSIVE readlines(_)
\* f.readlines(): the text cut after every newline
readlines(text) ==
    IF text = <<>> THEN <<>>
    ELSE LET ends == {k \in 1..Len(text) : text[k] = "\n"}
             k == IF ends = {} THEN Len(text) ELSE Min(ends)
         IN  <<SubSeq(text, 1, k)>> \o readlines(SubSeq(text, k + 1, Len(text)))

\* A variant of strip that leaves the line as it is.
strip_nothing(line) == line

RECURSIVE strip(_)
\* line.strip()
strip(line) ==
    IF line = <<>> THEN line
    ELSE IF line[1] \in Whitespace THEN strip(Tail(line))
    ELSE IF line[Len(line)] \in Whitespace THEN strip(SubSeq(line, 1, Len(line) - 1))
    ELSE line

\* load_downloaded_events, character by character:
\* set(line.strip() for line in f.readlines())
read_events(text) == {strip(line) : line \in Range(readlines(text))}

\* save_upload_history: the object json.dump writes
dump_upload_history(files, t) == [uploaded_files |-> Descending(files), last_updated |-> t]

\* load_upload_history: set(data.get('uploaded_files', []))
read_upload_history(data) == Range(data.uploaded_files)

NoRoundtrip ==
    [phase |-> "start", ids |-> {}, text |-> <<>>, loaded |-> {},
     files |-> {}, json |-> dump_upload_history({}, 0), uploaded |-> {}]

\* An object holding the ids `ids` and the paths `files` saves both ledgers.
ledgers_saved(ids, files) ==
    /\ roundtrip.phase = "start"
    /\ roundtrip' = [roundtrip EXCEPT !.phase = "saved",
                                      !.ids = ids,
                                      !.text = write_events(ids),
                                      !.files = files,
                                      !.json = dump_upload_history(files, now)]
    /\ UNCHANGED <<now, ticks, catalog, source_date, element_text, script_dir>>
    /\ UNCHANGED <<fsVars, dlVars, histVars, upVars, mgrVars>>

\* A newly constructed object loads both ledgers.
ledgers_loaded ==
    /\ roundtrip.phase = "saved"
    /\ roundtrip' = [roundtrip EXCEPT !.phase = "loaded",
                                      !.loaded = read_events(roundtrip.text),
                                      !.uploaded = read_upload_history(roundtrip.json)]
    /\ UNCHANGED <<now, ticks, catalog, source_date, element_text, script_dir>>
    /\ UNCHANGED <<fsVars, dlVars, histVars, upVars, mgrVars>>

\* ----------------------------------------------------------- discover
\* month_map.get(month_name, 6)
month_map_get(month_name) ==
    IF \E m \in Months : MonthKeys[m] = month_name
    THEN CHOOSE m \in Months : MonthKeys[m] = month_name
    ELSE DefaultMonth

\* datetime(year, month, day); a day the month does not have raises ValueError,
\* which load_all_events catches: the listing is skipped.
datetime(month, day) ==
    IF day \in 1..DaysIn[month] THEN Midnight(month, day) ELSE NoDate

\* The date load_all_events reads from a listing's text.
event_date(text) ==
    IF text = NoText THEN NoDate
    ELSE datetime(month_map_get(text.month_name), text.day)

\* one_week_ago <= event_date <= current_date
InWindow(t, date) ==
    /\ date # NoDate
    /\ t - LookbackDays * SecondsPerDay <= date
    /\ date <= t

\* load_all_events: newest first, ledgered ids skipped, then the date filter
load_all_events(d) ==
    Descending({e \in catalog : e \notin downloaded_events[d] /\ InWindow(now, event_date(element_text[e]))})

\* ------------------------------------------------------- download pool
Slot(tab, e, t) == [tab |-> tab, event_number |-> e, start_time |-> t]

\* A variant of the age test that also takes a slot of exactly 5 minutes.
Expired_at_least(slot, t) == t - slot.start_time >= DownloadTtl

Expired(slot, t) == t - slot.start_time > DownloadTtl

\* cleanup_old_download_tabs: every slot older than 5 minutes is closed and dropped
cleanup_old_download_tabs(tabs, handles, t) ==
    LET Keep(slot) == ~Expired(slot, t)
        Gone(slot) == Expired(slot, t)
        gone == Range(SelectSeq(tabs, Gone))
        Open(h) == h \notin {g.tab : g \in gone}
    IN  [tabs |-> SelectSeq(tabs, Keep), handles |-> SelectSeq(handles, Open), gone |-> gone]

RECURSIVE SortedByStart_newest(_)
\* A variant of the sort that puts the newest slot first.
SortedByStart_newest(tabs) ==
    IF tabs = <<>> THEN <<>>
    ELSE LET m == Max({tabs[k].start_time : k \in 1..Len(tabs)})
             k == Min({j \in 1..Len(tabs) : tabs[j].start_time = m})
         IN  <<tabs[k]>> \o SortedByStart_newest(SubSeq(tabs, 1, k - 1) \o SubSeq(tabs, k + 1, Len(tabs)))

RECURSIVE SortedByStart(_)
\* sorted(self.downloading_tabs, key=start_time): stable
SortedByStart(tabs) ==
    IF tabs = <<>> THEN <<>>
    ELSE LET m == Min({tabs[k].start_time : k \in 1..Len(tabs)})
             k == Min({j \in 1..Len(tabs) : tabs[j].start_time = m})
         IN  <<tabs[k]>> \o SortedByStart(SubSeq(tabs, 1, k - 1) \o SubSeq(tabs, k + 1, Len(tabs)))

\* limit_open_tabs: with more than 10 windows, the oldest slots are closed and dropped
limit_open_tabs(tabs, handles) ==
    IF Len(handles) > MaxTabs
    THEN LET n == Len(handles) - MaxTabs
             sorted == SortedByStart(tabs)
             oldest == Range(SubSeq(sorted, 1, IF n < Len(sorted) THEN n ELSE Len(sorted)))
             Keep(slot) == slot \notin oldest
             Open(h) == h \notin {g.tab : g \in oldest}
         IN  [tabs |-> SelectSeq(tabs, Keep), handles |-> SelectSeq(handles, Open)]
    ELSE [tabs |-> tabs, handles |-> handles]

\* ------------------------------------------------------------ acquire
NoRaw == [state |-> "none", size |-> 0, mtime |-> 0]

\* download_folder.mkdir and info.txt: a folder without a video file
Folder == [state |-> "folder", size |-> 0, mtime |-> 0]

MinSizeBytes == 1024 * 1024

Sizes == {MinSizeBytes, MinSizeBytes + 1}

\* The part of the state one loop iteration of run_download_scan works on.
Work(d) ==
    [tabs |-> downloading_tabs[d], handles |-> window_handles[d],
     events |-> downloaded_events[d], file |-> downloaded_file, ok |-> FALSE,
     clicked |-> FALSE, folder |-> FALSE, disk |-> "ok"]

NoAttempt == [by |-> 0, event |-> 0, outcome |-> "none", ok |-> FALSE, disk |-> "ok"]

StartOutcomes == {"downloaded", "late_exception", "no_download_button", "download_exception"}

MeetingOutcomes ==
    {"no_new_tab", "not_meeting_page", "no_media_button", "no_video_link", "exception"}
        \cup StartOutcomes

\* start_download, running in the meeting tab `tab` at time t.
\*   downloaded:         the download button is clicked, the slot and the id recorded
\*   late_exception:     the same, then switching back to the main tab raises
\*   no_download_button: folder and info.txt are written, no button is found
\*   download_exception: driver.get raises
start_download(w, e, tab, t, outcome) ==
    IF outcome \in {"downloaded", "late_exception"}
    THEN [w EXCEPT !.tabs = Append(@, Slot(tab, e, t)),
                   !.events = @ \cup {e},
                   !.file = write_file(w.file, save_downloaded_events(w.events \cup {e}).lines,
                                       w.disk),
                   !.ok = (outcome = "downloaded"),
                   !.clicked = TRUE,
                   !.folder = TRUE]
    ELSE IF outcome = "no_download_button"
    THEN [w EXCEPT !.folder = TRUE]
    ELSE w

\* process_single_meeting: the meeting tab is opened; it stays open when the download
\* started or when an exception left it behind, and is closed on every other path
process_single_meeting(w, e, tab, t, outcome) ==
    IF outcome = "no_new_tab" THEN w
    ELSE IF outcome = "exception" THEN [w EXCEPT !.handles = Append(@, tab)]
    ELSE IF outcome \in StartOutcomes
    THEN LET r == start_download(w, e, tab, t, outcome)
         IN  IF r.ok THEN [r EXCEPT !.handles = Append(@, tab)] ELSE r
    ELSE w

\* SimpleBrooklineDownloader.__init__
downloader_init(d) ==
    /\ pc[d] = "none"
    /\ pc' = [pc EXCEPT ![d] = "idle"]
    /\ downloaded_events' =
          [downloaded_events EXCEPT ![d] = load_downloaded_events(downloaded_file, {})]
    /\ UNCHANGED <<downloading_tabs, window_handles, recent_events, idx, session>>
    /\ UNCHANGED <<envVars, fsVars, histVars>>
    /\ UNCHANGED <<upVars, mgrVars>>

\* __init__ when reading downloaded_events.txt raises: load_downloaded_events prints
\* the error and returns, and the object keeps the empty set of line 30.
downloader_init_read_error(d) ==
    /\ pc[d] = "none"
    /\ downloaded_file.exists
    /\ pc' = [pc EXCEPT ![d] = "idle"]
    /\ downloaded_events' = [downloaded_events EXCEPT ![d] = {}]
    /\ UNCHANGED <<downloading_tabs, window_handles, recent_events, idx, session>>
    /\ UNCHANGED <<envVars, fsVars, histVars>>
    /\ UNCHANGED <<upVars, mgrVars>>

\* Menu option 5 of the downloader, confirmed: the history is cleared in memory and
\* the ledger file rewritten.
choice_clear_history(d) ==
    /\ pc[d] = "idle"
    /\ downloaded_events' = [downloaded_events EXCEPT ![d] = {}]
    /\ downloaded_file' = write_file(downloaded_file, save_downloaded_events({}).lines, "ok")
    /\ UNCHANGED <<raw, converted>>
    /\ UNCHANGED <<pc, downloading_tabs, window_handles, recent_events, idx, session>>
    /\ UNCHANGED <<envVars, histVars>>
    /\ UNCHANGED <<upVars, mgrVars>>

\* run_download_scan up to the loop: init_driver and load_all_events.
\* Without candidates the scan returns at once and the driver quits.
scan_begin(d) ==
    /\ pc[d] = "idle"
    /\ session[d] < MaxSessions
    /\ LET found == load_all_events(d)
       IN  /\ session' = [session EXCEPT ![d] = @ + 1]
           /\ recent_events' = [recent_events EXCEPT ![d] = found]
           /\ idx' = [idx EXCEPT ![d] = 1]
           /\ IF found = <<>>
              THEN /\ pc' = [pc EXCEPT ![d] = "idle"]
                   /\ UNCHANGED window_handles
              ELSE /\ pc' = [pc EXCEPT ![d] = "loop"]
                   /\ window_handles' = [window_handles EXCEPT ![d] = <<<<session[d] + 1, 0>>>>]
    /\ UNCHANGED <<downloaded_events, downloading_tabs>>
    /\ UNCHANGED <<envVars, fsVars, histVars>>
    /\ UNCHANGED <<upVars, mgrVars>>

\* run_download_scan when load_all_events raises (driver.get fails): the exception
\* is caught at the end of run_download_scan, which prints "Scan error", and the
\* driver quits.
load_all_events_raises(d) ==
    /\ pc[d] = "idle"
    /\ session[d] < MaxSessions
    /\ session' = [session EXCEPT ![d] = @ + 1]
    /\ UNCHANGED <<pc, downloaded_events, downloading_tabs, window_handles, recent_events, idx>>
    /\ UNCHANGED <<envVars, fsVars, histVars>>
    /\ UNCHANGED <<upVars, mgrVars>>

\* One iteration of the loop of run_download_scan: every 10th event the old slots are
\* reclaimed, then limit_open_tabs, then process_single_meeting; `disk` is what the
\* storage does if the ledger file is rewritten.
scan_iteration(d, outcome, disk) ==
    /\ pc[d] = "loop"
    /\ LET e == recent_events[d][idx[d]]
           w == [Work(d) EXCEPT !.disk = disk]
           c == IF idx[d] % CleanupEvery = 0
                THEN cleanup_old_download_tabs(w.tabs, w.handles, now)
                ELSE [tabs |-> w.tabs, handles |-> w.handles, gone |-> {}]
           l == limit_open_tabs(c.tabs, c.handles)
           r == process_single_meeting([w EXCEPT !.tabs = l.tabs, !.handles = l.handles],
                                       e, <<session[d], e>>, now, outcome)
       IN  /\ downloading_tabs' = [downloading_tabs EXCEPT ![d] = r.tabs]
           /\ window_handles' = [window_handles EXCEPT ![d] = r.handles]
           /\ downloaded_events' = [downloaded_events EXCEPT ![d] = r.events]
           /\ downloaded_file' = r.file
           /\ raw' = IF r.folder /\ raw[e].state = "none" THEN [raw EXCEPT ![e] = Folder] ELSE raw
           /\ acquired' = IF r.clicked /\ acquired[e] < 2
                          THEN [acquired EXCEPT ![e] = @ + 1] ELSE acquired
           /\ reclaimed' = IF idx[d] % CleanupEvery = 0
                           THEN [by |-> d, slots |-> c.gone] ELSE reclaimed
           /\ attempt' = [by |-> d, event |-> e, outcome |-> outcome, ok |-> r.ok,
                          disk |-> IF r.clicked THEN disk ELSE "ok"]
    /\ idx' = [idx EXCEPT ![d] = @ + 1]
    /\ pc' = [pc EXCEPT ![d] = IF idx[d] = Len(recent_events[d]) THEN "wait" ELSE "loop"]
    /\ UNCHANGED <<recent_events, session, converted>>
    /\ UNCHANGED <<envVars, transcoded, convert_success>>
    /\ UNCHANGED <<upVars, mgrVars>>

\* A loop iteration with working storage.
scan_step(d, outcome) == scan_iteration(d, outcome, "ok")

\* A loop iteration that starts a download while the storage fails.
scan_step_disk(d, disk) == scan_iteration(d, "downloaded", disk)

\* A loop iteration in which the process dies (kill, power loss) while
\* save_downloaded_events rewrites the file: open(downloaded_file, 'w') has emptied
\* it and the first k lines of the new contents have reached it.  The object and
\* its browser are gone; the program has to be started again.
scan_crash(d, k) ==
    /\ pc[d] = "loop"
    /\ LET e == recent_events[d][idx[d]]
           lines == save_downloaded_events(downloaded_events[d] \cup {e}).lines
       IN  /\ k < Len(lines)
           /\ downloaded_file' = File(SubSeq(lines, 1, k))
           /\ acquired' = IF acquired[e] < 2 THEN [acquired EXCEPT ![e] = @ + 1] ELSE acquired
    /\ pc' = [pc EXCEPT ![d] = "none"]
    /\ downloaded_events' = [downloaded_events EXCEPT ![d] = {}]
    /\ downloading_tabs' = [downloading_tabs EXCEPT ![d] = <<>>]
    /\ window_handles' = [window_handles EXCEPT ![d] = <<>>]
    /\ recent_events' = [recent_events EXCEPT ![d] = <<>>]
    /\ idx' = [idx EXCEPT ![d] = 1]
    /\ UNCHANGED <<session, raw, converted>>
    /\ UNCHANGED <<envVars, reclaimed, transcoded, convert_success, attempt>>
    /\ UNCHANGED <<upVars, mgrVars>>

\* A loop iteration in which limit_open_tabs raises (driver.window_handles fails,
\* e.g. the browser session is lost): the exception leaves the loop, run_download_scan
\* prints "Scan error" and the driver quits.  cleanup_old_download_tabs, which
\* catches its own exceptions, has run before if this is a 10th event.
scan_abort(d) ==
    /\ pc[d] = "loop"
    /\ LET c == IF idx[d] % CleanupEvery = 0
                THEN cleanup_old_download_tabs(downloading_tabs[d], window_handles[d], now)
                ELSE [tabs |-> downloading_tabs[d], handles |-> window_handles[d], gone |-> {}]
       IN  /\ downloading_tabs' = [downloading_tabs EXCEPT ![d] = c.tabs]
           /\ reclaimed' = IF idx[d] % CleanupEvery = 0
                           THEN [by |-> d, slots |-> c.gone] ELSE reclaimed
    /\ window_handles' = [window_handles EXCEPT ![d] = <<>>]
    /\ pc' = [pc EXCEPT ![d] = "idle"]
    /\ UNCHANGED <<downloaded_events, recent_events, idx, session>>
    /\ UNCHANGED <<envVars, fsVars, acquired, transcoded, convert_success, attempt>>
    /\ UNCHANGED <<upVars, mgrVars>>

\* -------------------------------------------------------------- paths
\* A path is the sequence of its parts.  SimpleBrooklineDownloader.__init__:
\* save_path = Path(__file__).parent / "govideosav"
save_path(dir) == dir \o <<"govideosav">>

\* BrooklineCablecastUploader.__init__: watch_path = Path("C:/govideosav")
watch_path == <<"C:", "govideosav">>

\* The folder convert_video writes the output of event e to:
\* save_path / <download folder of e> / corrected_format
corrected_folder_of(dir, e) == save_path(dir) \o <<e, "corrected_format">>

\* The corrected_format folders find_files_to_upload looks into: one for every
\* folder directly under watch_path.
corrected_folders_scanned(folders) == {watch_path \o <<e, "corrected_format">> : e \in folders}

\* Where the scripts may be installed.
InstallDirs == {<<"C:">>, <<"C:", "brookline">>}

\* ---------------------------------------------------------- transform
\* What a run of ffmpeg can do: exit 0 with a sound output; exit 0 with an output of
\* at most 1000 bytes; a nonzero exit before any output was written, or after part
\* of it was; no exit within 10 minutes.
FfmpegOutcomes == {"ok", "small", "failed", "failed_partial", "timeout"}

\* The raw video files process_downloaded_files finds: *.mp4 / *.m4a outside
\* corrected_format.  A download still in progress has no such file yet.
VideoFiles(rawmap) == {e \in DOMAIN rawmap : rawmap[e].state = "complete"}

\* A variant of convert_video that runs ffmpeg, which has -y, over an output that
\* exists.
convert_video_overwrite(output, outcome) ==
    IF outcome = "ok" THEN [success |-> TRUE, output |-> "ok", ran |-> TRUE]
    ELSE IF outcome = "small" THEN [success |-> FALSE, output |-> "small", ran |-> TRUE]
    ELSE IF outcome \in {"timeout", "failed_partial"}
         THEN [success |-> FALSE, output |-> "partial", ran |-> TRUE]
    ELSE [success |-> FALSE, output |-> output, ran |-> TRUE]

\* convert_video: an existing output is taken as converted; otherwise ffmpeg runs.
\* A run that fails midway or is killed at the timeout leaves what it wrote so far.
convert_video(output, outcome) ==
    IF output # "none" THEN [success |-> TRUE, output |-> output, ran |-> FALSE]
    ELSE IF outcome = "ok" THEN [success |-> TRUE, output |-> "ok", ran |-> TRUE]
    ELSE IF outcome = "small" THEN [success |-> FALSE, output |-> "small", ran |-> TRUE]
    ELSE IF outcome \in {"timeout", "failed_partial"}
         THEN [success |-> FALSE, output |-> "partial", ran |-> TRUE]
    ELSE [success |-> FALSE, output |-> "none", ran |-> TRUE]

\* process_downloaded_files: convert_video on every raw video file of every folder
process_downloaded_files(rawmap, convmap, ff) ==
    [e \in DOMAIN convmap |->
        IF e \in VideoFiles(rawmap) THEN convert_video(convmap[e], ff[e])
        ELSE [success |-> FALSE, output |-> convmap[e], ran |-> FALSE]]

\* The end of run_download_scan: after the wait the remaining download tabs are
\* closed (their slots stay in downloading_tabs), the downloaded files are
\* converted and the driver quits.
scan_finish(d, ff) ==
    /\ pc[d] = "wait"
    /\ LET res == process_downloaded_files(raw, converted, ff)
       IN  /\ converted' = [e \in catalog |-> res[e].output]
           /\ transcoded' = {[event |-> e, size |-> raw[e].size, age |-> now - raw[e].mtime] :
                                e \in {x \in catalog : res[x].ran}}
           /\ convert_success' = {e \in catalog : res[e].success}
    /\ window_handles' = [window_handles EXCEPT ![d] = <<>>]
    /\ pc' = [pc EXCEPT ![d] = "idle"]
    /\ UNCHANGED <<downloaded_events, downloading_tabs, recent_events, idx, session>>
    /\ UNCHANGED <<envVars, downloaded_file, raw>>
    /\ UNCHANGED <<acquired, reclaimed, attempt>>
    /\ UNCHANGED <<upVars, mgrVars>>

\* Option 7 of the downloader's menu: process_downloaded_files on its own.
choice_process_files(d, ff) ==
    /\ pc[d] = "idle"
    /\ LET res == process_downloaded_files(raw, converted, ff)
       IN  /\ converted' = [e \in catalog |-> res[e].output]
           /\ transcoded' = {[event |-> e, size |-> raw[e].size, age |-> now - raw[e].mtime] :
                                e \in {x \in catalog : res[x].ran}}
           /\ convert_success' = {e \in catalog : res[e].success}
    /\ UNCHANGED <<envVars, downloaded_file, raw, dlVars>>
    /\ UNCHANGED <<acquired, reclaimed, attempt>>
    /\ UNCHANGED <<upVars, mgrVars>>

\* -------------------------------------------------------- environment
\* The browser finishes a download: the video file appears in the folder.  A
\* download runs in its tab, so it can finish only while that tab is open.
browser_download(d, e, size) ==
    /\ raw[e].state = "folder"
    /\ \E k \in 1..Len(downloading_tabs[d]) :
          /\ downloading_tabs[d][k].event_number = e
          /\ downloading_tabs[d][k].tab \in Range(window_handles[d])
    /\ raw' = [raw EXCEPT ![e] = [state |-> "complete", size |-> size, mtime |-> now]]
    /\ UNCHANGED <<envVars, downloaded_file, converted, dlVars, histVars>>
    /\ UNCHANGED <<upVars, mgrVars>>

\* A new event is listed on the page.
event_listed(e) ==
    /\ e \notin catalog
    /\ catalog' = catalog \cup {e}
    /\ source_date' = (e :> now - (now % SecondsPerDay)) @@ source_date
    /\ element_text' = (e :> Render(now - (now % SecondsPerDay), "upper")) @@ element_text
    /\ raw' = (e :> NoRaw) @@ raw
    /\ converted' = (e :> "none") @@ converted
    /\ acquired' = (e :> 0) @@ acquired
    /\ UNCHANGED <<now, ticks, script_dir, roundtrip, downloaded_file, dlVars, reclaimed, transcoded, convert_success, attempt>>
    /\ UNCHANGED <<upVars, mgrVars>>

\* The clock advances by dt seconds.
Tick(dt) ==
    /\ ticks < MaxTicks
    /\ ticks' = ticks + 1
    /\ now' = now + dt
    /\ UNCHANGED <<catalog, source_date, element_text, script_dir, roundtrip, fsVars, dlVars, histVars>>
    /\ UNCHANGED <<upVars, mgrVars>>

\* ------------------------------------------------------------ publish
NoVideo == [exists |-> FALSE, size |-> 0, mtime |-> 0]

Video(size, mtime) == [exists |-> TRUE, size |-> size, mtime |-> mtime]

\* load_upload_history: the 'uploaded_files' list of the file, when the file exists
load_upload_history(file, current) == IF file.exists THEN Range(file.lines) ELSE current

\* save_upload_history: the file is rewritten with list(self.uploaded_files)
save_upload_history(files) == File(Ascending(files))

\* A variant of find_files_to_upload that lets a file of exactly 1 MiB through.
find_files_to_upload_at_least(files, ledger, t) ==
    Ascending({f \in DOMAIN files :
                  /\ files[f].exists
                  /\ f \notin ledger
                  /\ files[f].size >= MinSizeBytes
                  /\ t - files[f].mtime > QuietPeriod})

\* find_files_to_upload: the *.mp4 files of the corrected_format folders that are not
\* in uploaded_files, are larger than 1 MiB and were last modified more than 5
\* minutes ago
find_files_to_upload(files, ledger, t) ==
    Ascending({f \in DOMAIN files :
                  /\ files[f].exists
                  /\ f \notin ledger
                  /\ files[f].size > MinSizeBytes
                  /\ t - files[f].mtime > QuietPeriod})

UploadSlot(tab, f, t) == [tab |-> tab, filename |-> f, start_time |-> t]

\* A cleanup that closes the window of every slot older than 12 minutes and keeps
\* the slot in the pool.
cleanup_old_upload_tabs_keep(tabs, handles, t) ==
    LET Gone(slot) == t - slot.start_time > UploadTtl
        gone == Range(SelectSeq(tabs, Gone))
        Open(h) == h \notin {g.tab : g \in gone}
    IN  [tabs |-> tabs, handles |-> SelectSeq(handles, Open), gone |-> gone]

\* cleanup_old_upload_tabs: every slot older than 12 minutes is closed and dropped
cleanup_old_upload_tabs(tabs, handles, t) ==
    LET Keep(slot) == ~(t - slot.start_time > UploadTtl)
        Gone(slot) == t - slot.start_time > UploadTtl
        gone == Range(SelectSeq(tabs, Gone))
        Open(h) == h \notin {g.tab : g \in gone}
    IN  [tabs |-> SelectSeq(tabs, Keep), handles |-> SelectSeq(handles, Open), gone |-> gone]

\* limit_open_upload_tabs: with more than 10 windows, the oldest slots are closed and
\* dropped
limit_open_upload_tabs(tabs, handles) ==
    IF Len(handles) > MaxUploadTabs
    THEN LET n == Len(handles) - MaxUploadTabs
             sorted == SortedByStart(tabs)
             oldest == Range(SubSeq(sorted, 1, IF n < Len(sorted) THEN n ELSE Len(sorted)))
             Keep(slot) == slot \notin oldest
             Open(h) == h \notin {g.tab : g \in oldest}
         IN  [tabs |-> SelectSeq(tabs, Keep), handles |-> SelectSeq(handles, Open)]
    ELSE [tabs |-> tabs, handles |-> handles]

UploadOutcomes == {"uploaded", "upload_failed", "navigate_failed"}

\* navigate_to_assets(keep_old_tab=True) followed by upload_file.  The new tab stays
\* open whatever upload_file returns; the slot and the ledger entry are written
\* after the final Upload button was clicked.
upload_file(w, f, tab, t, outcome) ==
    IF outcome = "navigate_failed" THEN w
    ELSE IF outcome = "upload_failed" THEN [w EXCEPT !.handles = Append(@, tab)]
    ELSE [w EXCEPT !.handles = Append(@, tab),
                   !.tabs = Append(@, UploadSlot(tab, f, t)),
                   !.ledger = @ \cup {f},
                   !.file = save_upload_history(w.ledger \cup {f}),
                   !.ok = TRUE]

\* BrooklineCablecastUploader.__init__
uploader_init(u) ==
    /\ upc[u] = "none"
    /\ upc' = [upc EXCEPT ![u] = "idle"]
    /\ uploaded_files' = [uploaded_files EXCEPT ![u] = load_upload_history(upload_log_file, {})]
    /\ UNCHANGED <<watch, upload_log_file, accepted, uploading_tabs, upload_handles,
                   files_to_upload, uidx, cleanup_rounds, usession, published, scanned>>
    /\ UNCHANGED <<envVars, fsVars, dlVars, histVars, mgrVars>>

\* upload_session up to the loop: init_driver, login, navigate_to_assets and
\* find_files_to_upload.  When one of the first three fails, or no file is found,
\* the session returns and the driver quits.
upload_begin(u, ready) ==
    /\ upc[u] = "idle"
    /\ usession[u] < MaxSessions
    /\ usession' = [usession EXCEPT ![u] = @ + 1]
    /\ IF ready
       THEN LET found == find_files_to_upload(watch, uploaded_files[u], now)
            IN  /\ files_to_upload' = [files_to_upload EXCEPT ![u] = found]
                /\ scanned' = [by |-> u, at |-> now, files |-> Range(found),
                               ledger |-> uploaded_files[u], saw |-> watch]
                /\ uidx' = [uidx EXCEPT ![u] = 1]
                /\ IF found = <<>>
                   THEN UNCHANGED <<upc, upload_handles>>
                   ELSE /\ upc' = [upc EXCEPT ![u] = "loop"]
                        /\ upload_handles' =
                              [upload_handles EXCEPT ![u] = <<<<usession[u] + 1, 0>>>>]
       ELSE UNCHANGED <<files_to_upload, scanned, uidx, upc, upload_handles>>
    /\ UNCHANGED <<watch, upload_log_file, accepted, uploaded_files, uploading_tabs,
                   cleanup_rounds, published>>
    /\ UNCHANGED <<envVars, fsVars, dlVars, histVars, mgrVars>>

\* One iteration of the loop of upload_session, entered with a free slot
\* (wait_for_upload_slots returns at once): navigate_to_assets, upload_file, and
\* after every 3rd file cleanup_old_upload_tabs and limit_open_upload_tabs.
upload_step(u, outcome) ==
    /\ upc[u] = "loop"
    /\ Len(uploading_tabs[u]) < max_concurrent
    /\ LET f == files_to_upload[u][uidx[u]]
           w == [tabs |-> uploading_tabs[u], handles |-> upload_handles[u],
                 ledger |-> uploaded_files[u], file |-> upload_log_file, ok |-> FALSE]
           r == upload_file(w, f, <<usession[u], uidx[u]>>, now, outcome)
           c == IF uidx[u] % UploadCleanupEvery = 0
                THEN cleanup_old_upload_tabs(r.tabs, r.handles, now)
                ELSE [tabs |-> r.tabs, handles |-> r.handles, gone |-> {}]
           l == IF uidx[u] % UploadCleanupEvery = 0
                THEN limit_open_upload_tabs(c.tabs, c.handles)
                ELSE [tabs |-> c.tabs, handles |-> c.handles]
       IN  /\ uploading_tabs' = [uploading_tabs EXCEPT ![u] = l.tabs]
           /\ upload_handles' = [upload_handles EXCEPT ![u] = l.handles]
           /\ uploaded_files' = [uploaded_files EXCEPT ![u] = r.ledger]
           /\ upload_log_file' = r.file
           /\ published' = IF r.ok
                           THEN [published EXCEPT ![f] = IF @ < 2 THEN @ + 1 ELSE @]
                           ELSE published
    /\ uidx' = [uidx EXCEPT ![u] = @ + 1]
    /\ IF uidx[u] = Len(files_to_upload[u])
       THEN /\ upc' = [upc EXCEPT ![u] = "final"]
            /\ cleanup_rounds' = [cleanup_rounds EXCEPT ![u] = 0]
       ELSE UNCHANGED <<upc, cleanup_rounds>>
    /\ UNCHANGED <<watch, accepted, files_to_upload, usession, scanned>>
    /\ UNCHANGED <<envVars, fsVars, dlVars, histVars, mgrVars>>

\* One round of wait_for_upload_slots, which upload_session calls at the head of
\* every iteration: while the pool holds max_concurrent slots, sleep(30), then
\* cleanup_old_upload_tabs.  The loop has no other way out.
wait_for_upload_slots(u) ==
    /\ upc[u] = "loop"
    /\ Len(uploading_tabs[u]) >= max_concurrent
    /\ now' = now + PollSeconds
    /\ LET c == cleanup_old_upload_tabs(uploading_tabs[u], upload_handles[u], now + PollSeconds)
       IN  /\ uploading_tabs' = [uploading_tabs EXCEPT ![u] = c.tabs]
           /\ upload_handles' = [upload_handles EXCEPT ![u] = c.handles]
    /\ UNCHANGED <<watch, upload_log_file, accepted, upc, uploaded_files, files_to_upload,
                   uidx, cleanup_rounds, usession, published, scanned>>
    /\ UNCHANGED <<ticks, catalog, source_date, element_text, script_dir, roundtrip, fsVars, dlVars, histVars, mgrVars>>

\* One round of the final wait of upload_session: sleep(30), then
\* cleanup_old_upload_tabs.
upload_final_round(u) ==
    /\ upc[u] = "final"
    /\ uploading_tabs[u] # <<>>
    /\ cleanup_rounds[u] < max_cleanup_rounds
    /\ cleanup_rounds' = [cleanup_rounds EXCEPT ![u] = @ + 1]
    /\ now' = now + PollSeconds
    /\ LET c == cleanup_old_upload_tabs(uploading_tabs[u], upload_handles[u], now + PollSeconds)
       IN  /\ uploading_tabs' = [uploading_tabs EXCEPT ![u] = c.tabs]
           /\ upload_handles' = [upload_handles EXCEPT ![u] = c.handles]
    /\ UNCHANGED <<watch, upload_log_file, accepted, upc, uploaded_files, files_to_upload,
                   uidx, usession, published, scanned>>
    /\ UNCHANGED <<ticks, catalog, source_date, element_text, script_dir, roundtrip, fsVars, dlVars, histVars, mgrVars>>

\* The end of upload_session: the slots whose tab is still open are force closed
\* and dropped, and the driver quits.
upload_finish(u) ==
    /\ upc[u] = "final"
    /\ uploading_tabs[u] = <<>> \/ cleanup_rounds[u] >= max_cleanup_rounds
    /\ LET Stale(slot) == slot.tab \notin Range(upload_handles[u])
       IN  uploading_tabs' = [uploading_tabs EXCEPT ![u] = SelectSeq(@, Stale)]
    /\ upload_handles' = [upload_handles EXCEPT ![u] = <<>>]
    /\ upc' = [upc EXCEPT ![u] = "idle"]
    /\ UNCHANGED <<watch, upload_log_file, accepted, uploaded_files, files_to_upload, uidx,
                   cleanup_rounds, usession, published, scanned>>
    /\ UNCHANGED <<envVars, fsVars, dlVars, histVars, mgrVars>>

\* The Cablecast server completes an upload.  An upload runs in its tab, so it can
\* complete only while that tab is open.
remote_accept(u, f) ==
    /\ f \notin accepted
    /\ \E k \in 1..Len(uploading_tabs[u]) :
          /\ uploading_tabs[u][k].filename = f
          /\ uploading_tabs[u][k].tab \in Range(upload_handles[u])
    /\ accepted' = accepted \cup {f}
    /\ UNCHANGED <<watch, upload_log_file, upc, uploaded_files, uploading_tabs,
                   upload_handles, files_to_upload, uidx, cleanup_rounds, usession,
                   published, scanned>>
    /\ UNCHANGED <<envVars, fsVars, dlVars, histVars, mgrVars>>

\* clear_upload_history, confirmed: the history is cleared in memory and the ledger
\* file rewritten.
clear_upload_history(u) ==
    /\ upc[u] = "idle"
    /\ uploaded_files' = [uploaded_files EXCEPT ![u] = {}]
    /\ upload_log_file' = write_file(upload_log_file, save_upload_history({}).lines, "ok")
    /\ UNCHANGED <<watch, accepted, upc, uploading_tabs, upload_handles,
                   files_to_upload, uidx, cleanup_rounds, usession, published, scanned>>
    /\ UNCHANGED <<envVars, fsVars, dlVars, histVars, mgrVars>>

\* ------------------------------------------------------------ manager
\* The threads of the manager: the main thread, which runs the menu, the thread
\* start_auto_sync creates, and the two threads of the parallel mode.
Flows == {"menu", "auto", "downloader_auto", "uploader_auto"}

\* The threads that poll the scheduler.
Pollers == Flows \ {"menu"}

\* schedule.every(6).hours.do(...) at time t by thread f: the job is due 6 hours
\* later.  `ran_by` remembers the thread whose run_pending ran the job last.
Job(f, t) == [by |-> f, at |-> t + SyncHours * 3600, ran_by |-> "nobody"]

\* What a job does when it is run: run_sync_cycle, downloader.run_download_scan or
\* uploader.upload_session.
JobPosition(job) ==
    IF job.by = "auto" THEN "download"
    ELSE IF job.by = "downloader_auto" THEN "down_only"
    ELSE "up_only"

\* The positions at which a thread is inside a pass: run_downloader, the 5 minute
\* wait of run_sync_cycle, run_uploader.
PassPositions == {"download", "stabilise", "upload", "down_only", "up_only"}

InFlight(f) == flow[f] \in PassPositions

\* Where a thread goes when its pass ends: the menu prompts again, the auto sync
\* thread goes back to its polling loop.
AfterPass(f) == IF f = "menu" THEN "prompt" ELSE "poll"

\* Menu option 1: run_sync_cycle on the main thread.
choice_sync_cycle ==
    /\ flow["menu"] = "prompt"
    /\ flow' = [flow EXCEPT !["menu"] = "download"]
    /\ UNCHANGED <<running, jobs, scan_outcome>>
    /\ UNCHANGED <<envVars, fsVars, dlVars, histVars, upVars>>

\* Menu option 2: start_auto_sync, unless the thread is alive.  The new thread
\* registers run_sync_cycle with the scheduler and runs the first cycle at once.
choice_start_auto ==
    /\ flow["menu"] = "prompt"
    /\ flow["auto"] \in {"none", "dead"}
    /\ Len(jobs) < MaxJobs
    /\ jobs' = Append(jobs, Job("auto", now))
    /\ flow' = [flow EXCEPT !["auto"] = "download"]
    /\ UNCHANGED <<running, scan_outcome>>
    /\ UNCHANGED <<envVars, fsVars, dlVars, histVars, upVars>>

\* Menu option 3: stop_auto_sync.
choice_stop_auto ==
    /\ flow["menu"] = "prompt"
    /\ running' = FALSE
    /\ jobs' = <<>>
    /\ UNCHANGED <<flow, scan_outcome>>
    /\ UNCHANGED <<envVars, fsVars, dlVars, histVars, upVars>>

\* Menu option 4: run_parallel_mode starts the threads downloader_auto and
\* uploader_auto.  Each registers its job with the scheduler and runs its first
\* pass at once (the uploader after a 2 minute delay).
run_parallel_mode ==
    /\ flow["menu"] = "prompt"
    /\ flow["downloader_auto"] \in {"none", "dead"}
    /\ flow["uploader_auto"] \in {"none", "dead"}
    /\ Len(jobs) + 2 <= MaxJobs
    /\ jobs' = jobs \o <<Job("downloader_auto", now), Job("uploader_auto", now)>>
    /\ flow' = [flow EXCEPT !["downloader_auto"] = "down_only",
                            !["uploader_auto"] = "up_only"]
    /\ UNCHANGED <<running, scan_outcome>>
    /\ UNCHANGED <<envVars, fsVars, dlVars, histVars, upVars>>

\* Menu options 6 and 7: run_downloader or run_uploader on the main thread.
choice_run_only(position) ==
    /\ flow["menu"] = "prompt"
    /\ flow' = [flow EXCEPT !["menu"] = position]
    /\ UNCHANGED <<running, jobs, scan_outcome>>
    /\ UNCHANGED <<envVars, fsVars, dlVars, histVars, upVars>>

\* Menu option 0: stop_auto_sync and exit; the daemon thread dies with the process.
choice_exit ==
    /\ flow["menu"] = "prompt"
    /\ running' = FALSE
    /\ jobs' = <<>>
    /\ flow' = [f \in Flows |-> IF f = "menu" THEN "exited"
                                ELSE IF flow[f] = "none" THEN "none" ELSE "dead"]
    /\ UNCHANGED scan_outcome
    /\ UNCHANGED <<envVars, fsVars, dlVars, histVars, upVars>>

\* How the scan inside run_downloader can end: run_download_scan runs to its end,
\* returns early because init_driver failed, catches an exception of the scan
\* ("Scan error"), or an exception escapes to run_downloader.
ScanOutcomes == {"completed", "driver_failed", "scan_error", "exception"}

\* What run_downloader returns: False in its except branch, True after every
\* return of run_download_scan.
run_downloader_result(outcome) == outcome # "exception"

\* run_downloader returns.  In run_sync_cycle the upload follows after the 5 minute
\* wait when run_downloader returned True.
run_downloader(f, outcome) ==
    /\ flow[f] \in {"download", "down_only"}
    /\ flow' = [flow EXCEPT ![f] = IF flow[f] = "download" /\ run_downloader_result(outcome)
                                   THEN "stabilise"
                                   ELSE AfterPass(f)]
    /\ scan_outcome' = [scan_outcome EXCEPT ![f] = outcome]
    /\ UNCHANGED <<running, jobs>>
    /\ UNCHANGED <<envVars, fsVars, dlVars, histVars, upVars>>

\* time.sleep(300) of run_sync_cycle ends.
run_sync_cycle_wait(f) ==
    /\ flow[f] = "stabilise"
    /\ flow' = [flow EXCEPT ![f] = "upload"]
    /\ UNCHANGED <<running, jobs, scan_outcome>>
    /\ UNCHANGED <<envVars, fsVars, dlVars, histVars, upVars>>

\* run_uploader returns.
run_uploader(f) ==
    /\ flow[f] \in {"upload", "up_only"}
    /\ flow' = [flow EXCEPT ![f] = AfterPass(f)]
    /\ UNCHANGED <<running, jobs, scan_outcome>>
    /\ UNCHANGED <<envVars, fsVars, dlVars, histVars, upVars>>

\* The polling loop of a thread (while self.running: schedule.run_pending()): it ends
\* when self.running is false; otherwise run_pending runs a job that is due,
\* whichever thread registered it, in the polling thread.
run_pending(f) ==
    /\ flow[f] = "poll"
    /\ IF ~running
       THEN /\ flow' = [flow EXCEPT ![f] = "dead"]
            /\ UNCHANGED jobs
       ELSE \E k \in 1..Len(jobs) :
               /\ jobs[k].at <= now
               /\ \A j \in 1..(k - 1) : jobs[j].at > now
               /\ jobs' = [jobs EXCEPT ![k] = [Job(jobs[k].by, now) EXCEPT !.ran_by = f]]
               /\ flow' = [flow EXCEPT ![f] = JobPosition(jobs[k])]
    /\ UNCHANGED <<running, scan_outcome>>
    /\ UNCHANGED <<envVars, fsVars, dlVars, histVars, upVars>>

\* The loop of schedule_auto_sync.
schedule_auto_sync == run_pending("auto")

\* The loop of the thread of start_downloader_auto.
downloader_auto == run_pending("downloader_auto")

\* The loop of the thread of start_uploader_auto.
uploader_auto == run_pending("uploader_auto")

\* ------------------------------------------------------ specification
InitIn(t, events, dates, styles, videos, ledger) ==
    /\ roundtrip = NoRoundtrip
    /\ now = t
    /\ ticks = 0
    /\ catalog = events
    /\ source_date = dates
    /\ element_text = [e \in events |-> Render(dates[e], styles[e])]
    /\ downloaded_file = ledger
    /\ raw = [e \in events |-> NoRaw]
    /\ converted = [e \in events |-> "none"]
    /\ pc = [d \in Downloaders |-> "none"]
    /\ downloaded_events = [d \in Downloaders |-> {}]
    /\ downloading_tabs = [d \in Downloaders |-> <<>>]
    /\ window_handles = [d \in Downloaders |-> <<>>]
    /\ recent_events = [d \in Downloaders |-> <<>>]
    /\ idx = [d \in Downloaders |-> 1]
    /\ session = [d \in Downloaders |-> 0]
    /\ acquired = [e \in events |-> 0]
    /\ reclaimed = [by |-> 0, slots |-> {}]
    /\ transcoded = {}
    /\ convert_success = {}
    /\ attempt = NoAttempt
    /\ running = TRUE
    /\ jobs = <<>>
    /\ flow = [f \in Flows |-> IF f = "menu" THEN "prompt" ELSE "none"]
    /\ scan_outcome = [f \in Flows |-> "none"]
    /\ watch = videos
    /\ upload_log_file = NoFile
    /\ accepted = {}
    /\ upc = [u \in Uploaders |-> "none"]
    /\ uploaded_files = [u \in Uploaders |-> {}]
    /\ uploading_tabs = [u \in Uploaders |-> <<>>]
    /\ upload_handles = [u \in Uploaders |-> <<>>]
    /\ files_to_upload = [u \in Uploaders |-> <<>>]
    /\ uidx = [u \in Uploaders |-> 1]
    /\ cleanup_rounds = [u \in Uploaders |-> 0]
    /\ usession = [u \in Uploaders |-> 0]
    /\ published = [f \in DOMAIN videos |-> 0]
    /\ scanned = [by |-> 0, at |-> 0, files |-> {}, ledger |-> {},
                  saw |-> [f \in DOMAIN videos |-> NoVideo]]

\* The scripts are installed in the root of drive C:, where the uploader looks.
InitAll(t, events, dates, styles, videos, ledger) ==
    /\ script_dir = <<"C:">>
    /\ InitIn(t, events, dates, styles, videos, ledger)

\* A first start of the program: there is no downloaded_events.txt yet.
InitWith(t, events, dates, styles, videos) ==
    InitAll(t, events, dates, styles, videos, NoFile)

NoVideos == [f \in Videos |-> NoVideo]

\* One scan at a time: the manager's menu runs a scan to its end before the next.
NoScanBut(d) == \A o \in Downloaders \ {d} : pc[o] \in {"none", "idle"}

AllOk == {"ok"}

Large == {MinSizeBytes + 1}

\* Acquisition by several downloader objects sharing one ledger file, as the
\* manager creates them (run_downloader, start_downloader_auto), one scan at a time.
Init == InitWith(Today, 1..MaxEvents, [e \in 1..MaxEvents |-> Today], [e \in 1..MaxEvents |-> "upper"], NoVideos)

Next ==
    \/ \E d \in Downloaders : downloader_init(d)
    \/ \E d \in Downloaders : NoScanBut(d) /\ scan_begin(d)
    \/ \E d \in Downloaders, o \in {"downloaded", "no_video_link", "no_download_button"} :
          scan_step(d, o)
    \/ \E d \in Downloaders, ff \in [catalog -> AllOk] : scan_finish(d, ff)
    \/ \E d \in Downloaders, e \in catalog, z \in Large : browser_download(d, e, z)

Spec == Init /\ [][Next]_vars

\* The download pool of one downloader object over a long listing, every listed
\* event having a video, with the clock stepping around the 5 minute limit.
FirstListing == 1..(PoolEvents - 2)

InitPool == InitWith(Today, FirstListing, [e \in FirstListing |-> Today], [e \in FirstListing |-> "upper"], NoVideos)

NextPool ==
    \/ downloader_init(1)
    \/ scan_begin(1)
    \/ scan_step(1, "downloaded")
    \/ \E ff \in [catalog -> AllOk] : scan_finish(1, ff)
    \/ \E dt \in {DownloadTtl, DownloadTtl + 1} : Tick(dt)
    \/ \E e \in 1..PoolEvents : e = Max(catalog) + 1 /\ event_listed(e)

SpecPool == InitPool /\ [][NextPool]_vars

\* Discovery by one downloader object over listings of every kind: held before,
\* at the edges of, inside and after the 14 day window, held in another month,
\* shown without a date, written with upper case or title case month names; at
\* midnight and at noon.
DiscoverDates ==
    {Midnight(6, 5), Midnight(6, 6), Midnight(6, 20), Midnight(6, 21), Midnight(1, 10), NoDate}

InitDiscover ==
    \E t \in {Today, Today + (SecondsPerDay \div 2)},
       dates \in [1..MaxEvents -> DiscoverDates],
       styles \in [1..MaxEvents -> Styles] :
          InitWith(t, 1..MaxEvents, dates, styles, NoVideos)

NextDiscover ==
    \/ downloader_init(1)
    \/ scan_begin(1)
    \/ \E o \in {"downloaded", "no_video_link"} : scan_step(1, o)
    \/ \E ff \in [catalog -> AllOk] : scan_finish(1, ff)

SpecDiscover == InitDiscover /\ [][NextDiscover]_vars

\* Publishing by one uploader object: videos of either size, written just inside
\* or just outside the quiet period, or absent.
WatchedVideos ==
    {NoVideo} \cup {Video(z, Today - a) : z \in Sizes, a \in {QuietPeriod, QuietPeriod + 1}}

InitUp ==
    \E videos \in [Videos -> WatchedVideos] :
        InitWith(Today, {}, <<>>, <<>>, videos)

NextUp ==
    \/ uploader_init(1)
    \/ \E ready \in BOOLEAN : upload_begin(1, ready)
    \/ \E o \in UploadOutcomes : upload_step(1, o)
    \/ upload_final_round(1)
    \/ upload_finish(1)
    \/ \E f \in Videos : remote_accept(1, f)

SpecUp == InitUp /\ [][NextUp]_vars

\* Publishing by one uploader object with one stable video more than the pool
\* holds slots.
PoolFiles == max_concurrent + 1

InitUpPool ==
    InitWith(Today, {}, <<>>, <<>>,
             [f \in 1..PoolFiles |-> Video(MinSizeBytes + 1, Today - (QuietPeriod + 1))])

NextUpPool ==
    \/ uploader_init(1)
    \/ \E ready \in BOOLEAN : upload_begin(1, ready)
    \/ upload_step(1, "uploaded")
    \/ wait_for_upload_slots(1)
    \/ upload_final_round(1)
    \/ upload_finish(1)

SpecUpPool == InitUpPool /\ [][NextUpPool]_vars

\* The same pool under fair scheduling: a publish pass that can take a step
\* eventually takes it, and every sleep(30) of its two wait loops moves the clock.
\* The clock is followed for MaxWait seconds.
NextUpFair ==
    \/ uploader_init(1)
    \/ \E ready \in BOOLEAN : upload_begin(1, ready)
    \/ upload_step(1, "uploaded")
    \/ now < Today + MaxWait /\ wait_for_upload_slots(1)
    \/ upload_final_round(1)
    \/ upload_finish(1)

SpecUpFair == InitUpPool /\ [][NextUpFair]_vars /\ WF_vars(NextUpFair)

\* Both ledgers, each written by several objects that share its file, one pass at a
\* time: every listed event has a video and every watched video is stable.
NoPassBut(kind, n) ==
    /\ \A d \in Downloaders : (kind = "download" /\ d = n) \/ pc[d] \in {"none", "idle"}
    /\ \A u \in Uploaders : (kind = "upload" /\ u = n) \/ upc[u] \in {"none", "idle"}

InitLedger ==
    InitWith(Today, 1..MaxEvents, [e \in 1..MaxEvents |-> Today], [e \in 1..MaxEvents |-> "upper"],
             [f \in Videos |-> Video(MinSizeBytes + 1, Today - (QuietPeriod + 1))])

NextLedger ==
    \/ \E d \in Downloaders : downloader_init(d)
    \/ \E d \in Downloaders : NoPassBut("download", d) /\ scan_begin(d)
    \/ \E d \in Downloaders : scan_step(d, "downloaded")
    \/ \E d \in Downloaders, ff \in [catalog -> AllOk] : scan_finish(d, ff)
    \/ \E u \in Uploaders : uploader_init(u)
    \/ \E u \in Uploaders : NoPassBut("upload", u) /\ upload_begin(u, TRUE)
    \/ \E u \in Uploaders : upload_step(u, "uploaded")
    \/ \E u \in Uploaders : upload_final_round(u)
    \/ \E u \in Uploaders : upload_finish(u)

SpecLedger == InitLedger /\ [][NextLedger]_vars

\* One downloader and one uploader with the menu operations that clear a history.
NextMenu ==
    \/ downloader_init(1)
    \/ NoPassBut("download", 1) /\ scan_begin(1)
    \/ scan_step(1, "downloaded")
    \/ \E ff \in [catalog -> AllOk] : scan_finish(1, ff)
    \/ choice_clear_history(1)
    \/ uploader_init(1)
    \/ NoPassBut("upload", 1) /\ upload_begin(1, TRUE)
    \/ upload_step(1, "uploaded")
    \/ upload_final_round(1)
    \/ upload_finish(1)
    \/ clear_upload_history(1)

SpecMenu == InitLedger /\ [][NextMenu]_vars

\* Both pools, the uploader's sessions before the downloader is started: a long
\* listing for the downloader, one video more than the pool holds for the
\* uploader, and the clock stepping around the 5 minute limit.
InitReclaim ==
    InitWith(Today, FirstListing, [e \in FirstListing |-> Today],
             [e \in FirstListing |-> "upper"],
             [f \in 1..PoolFiles |-> Video(MinSizeBytes + 1, Today - (QuietPeriod + 1))])

NextReclaim ==
    \/ NoPassBut("download", 1) /\ downloader_init(1)
    \/ scan_begin(1)
    \/ scan_step(1, "downloaded")
    \/ \E ff \in [catalog -> AllOk] : scan_finish(1, ff)
    \/ \E dt \in {DownloadTtl, DownloadTtl + 1} : Tick(dt)
    \/ \E e \in 1..PoolEvents : e = Max(catalog) + 1 /\ event_listed(e)
    \/ pc[1] = "none" /\ uploader_init(1)
    \/ pc[1] = "none" /\ upload_begin(1, TRUE)
    \/ upload_step(1, "uploaded")
    \/ wait_for_upload_slots(1)
    \/ upload_final_round(1)
    \/ upload_finish(1)

SpecReclaim == InitReclaim /\ [][NextReclaim]_vars

\* Transforming by one downloader object, at the end of its scans and from its
\* menu, with ffmpeg ending in every way it can.
NextTransform ==
    \/ downloader_init(1)
    \/ scan_begin(1)
    \/ \E o \in {"downloaded", "no_video_link"} : scan_step(1, o)
    \/ \E e \in catalog, z \in Large : browser_download(1, e, z)
    \/ \E ff \in [catalog -> FfmpegOutcomes] : scan_finish(1, ff)
    \/ \E ff \in [catalog -> FfmpegOutcomes] : choice_process_files(1, ff)

SpecTransform == Init /\ [][NextTransform]_vars

\* Scans of one downloader some hours apart, the later ones without candidates or
\* with a listing that fails.
NextRescan ==
    \/ downloader_init(1)
    \/ scan_begin(1)
    \/ load_all_events_raises(1)
    \/ scan_step(1, "downloaded")
    \/ \E e \in catalog, z \in Large : browser_download(1, e, z)
    \/ \E ff \in [catalog -> FfmpegOutcomes] : scan_finish(1, ff)
    \/ Tick(SyncHours * 3600)

SpecRescan == Init /\ [][NextRescan]_vars

\* The first scan of a downloader over a listing of more events than the pool has
\* room for, where a meeting page may raise after its tab has opened.
InitLeak ==
    InitWith(Today, 1..PoolEvents, [e \in 1..PoolEvents |-> Today],
             [e \in 1..PoolEvents |-> "upper"], NoVideos)

NextLeak ==
    \/ downloader_init(1)
    \/ session[1] = 0 /\ scan_begin(1)
    \/ \E o \in {"downloaded", "exception"} : scan_step(1, o)
    \/ \E ff \in [catalog -> AllOk] : scan_finish(1, ff)

SpecLeak == InitLeak /\ [][NextLeak]_vars

\* One downloader whose collaborators succeed: every meeting page has its download
\* button, ffmpeg exits with 0, and a download finishes if its tab stays open long
\* enough.  Every step that can be taken is taken at some time.
NextProgress ==
    \/ downloader_init(1)
    \/ scan_begin(1)
    \/ scan_step(1, "downloaded")
    \/ \E e \in catalog, z \in Large : browser_download(1, e, z)
    \/ \E ff \in [catalog -> AllOk] : scan_finish(1, ff)
    \/ \E ff \in [catalog -> AllOk] : choice_process_files(1, ff)
    \/ \E dt \in {PollSeconds, SyncHours * 3600} : Tick(dt)

SpecProgress == Init /\ [][NextProgress]_vars /\ WF_vars(NextProgress)

\* Every set of ids and of paths, saved and then loaded.
NextRoundtrip ==
    \/ \E ids \in SUBSET {Digits(n) : n \in 1..MaxIds}, files \in SUBSET Videos :
          ledgers_saved(ids, files)
    \/ ledgers_loaded

SpecRoundtrip == Init /\ [][NextRoundtrip]_vars

\* One downloader, in any of the places the scripts may be installed in.
InitInstall ==
    /\ script_dir \in InstallDirs
    /\ InitIn(Today, 1..MaxEvents, [e \in 1..MaxEvents |-> Today],
              [e \in 1..MaxEvents |-> "upper"], NoVideos, NoFile)

NextInstall ==
    \/ downloader_init(1)
    \/ scan_begin(1)
    \/ scan_step(1, "downloaded")
    \/ \E e \in catalog, z \in Large : browser_download(1, e, z)
    \/ \E ff \in [catalog -> FfmpegOutcomes] : scan_finish(1, ff)

SpecInstall == InitInstall /\ [][NextInstall]_vars

\* Scans of several downloader objects that run at the same time, as when a menu
\* run_downloader is started while the pass of the auto sync thread is in flight.
NextOverlap ==
    \/ \E d \in Downloaders : downloader_init(d)
    \/ \E d \in Downloaders : scan_begin(d)
    \/ \E d \in Downloaders, o \in {"downloaded", "no_video_link"} : scan_step(d, o)
    \/ \E d \in Downloaders, ff \in [catalog -> AllOk] : scan_finish(d, ff)

SpecOverlap == Init /\ [][NextOverlap]_vars

\* Scans of one downloader object in which anything can go wrong: every way
\* process_single_meeting can end, a failing pool maintenance, failing storage.
InitErrors ==
    InitWith(Today, 1..MaxEvents, [e \in 1..MaxEvents |-> Today],
             [e \in 1..MaxEvents |-> "upper"], NoVideos)

NextErrors ==
    \/ downloader_init(1)
    \/ scan_begin(1)
    \/ \E o \in MeetingOutcomes : scan_step(1, o)
    \/ \E disk \in DiskOutcomes \ {"ok"} : scan_step_disk(1, disk)
    \/ scan_abort(1)
    \/ \E ff \in [catalog -> AllOk] : scan_finish(1, ff)

SpecErrors == InitErrors /\ [][NextErrors]_vars

\* The ids that downloaded_events.txt holds from earlier runs of the program.
PersistedAtStart == {1}

\* One downloader object per run of the program, started over an existing ledger
\* file that may fail to be read, and killed at any point of a rewrite.
InitStorage ==
    InitAll(Today, 1..MaxEvents, [e \in 1..MaxEvents |-> Today],
            [e \in 1..MaxEvents |-> "upper"], NoVideos,
            save_downloaded_events(PersistedAtStart))

NextStorage ==
    \/ downloader_init(1)
    \/ downloader_init_read_error(1)
    \/ scan_begin(1)
    \/ \E o \in {"downloaded", "no_video_link"} : scan_step(1, o)
    \/ \E k \in 0..MaxEvents : scan_crash(1, k)
    \/ \E ff \in [catalog -> AllOk] : scan_finish(1, ff)

SpecStorage == InitStorage /\ [][NextStorage]_vars

\* The manager's menu and its auto sync thread, with the clock stepping by the
\* scheduling interval.
InitMgr == InitWith(Today, {}, <<>>, <<>>, NoVideos)

NextMgr ==
    \/ choice_sync_cycle
    \/ choice_start_auto
    \/ choice_stop_auto
    \/ \E position \in {"down_only", "up_only"} : choice_run_only(position)
    \/ choice_exit
    \/ \E f \in Flows, outcome \in ScanOutcomes : run_downloader(f, outcome)
    \/ \E f \in Flows : run_sync_cycle_wait(f)
    \/ \E f \in Flows : run_uploader(f)
    \/ schedule_auto_sync
    \/ Tick(SyncHours * 3600)

SpecMgr == InitMgr /\ [][NextMgr]_vars

\* The manager with its auto sync and its parallel mode: three threads poll the one
\* scheduler of the schedule module.
NextSched ==
    \/ choice_start_auto
    \/ choice_stop_auto
    \/ run_parallel_mode
    \/ \E f \in Pollers : run_downloader(f, "completed")
    \/ \E f \in Pollers : run_sync_cycle_wait(f)
    \/ \E f \in Pollers : run_uploader(f)
    \/ schedule_auto_sync
    \/ downloader_auto
    \/ uploader_auto
    \/ Tick(SyncHours * 3600)

SpecSched == InitMgr /\ [][NextSched]_vars

\* ------------------------------------------------------------- claims
\* C1 (as claimed): an event whose download was initiated once is never acquired
\* again by a later pass over the unchanged catalog.
IdempotentDiscovery == \A e \in catalog : acquired[e] <= 1

\* C2 (as claimed): the number of slots held in a pool never exceeds maxConcurrent.
PoolBound == \A d \in Downloaders : Len(downloading_tabs[d]) <= MaxTabs

\* C3 (as claimed): an event whose slot cleanup_old_download_tabs reclaimed after the
\* 5 minute limit is not in the acquire ledger, so the next pass attempts it again.
ReclaimedRetryable ==
    \A g \in reclaimed.slots : g.event_number \notin downloaded_events[reclaimed.by]

\* C4 (as claimed): every id in the acquire ledger, in memory or in the file, has its
\* artifact on disk.
LedgeredHasArtifact ==
    \A e \in catalog :
        (e \in Range(downloaded_file.lines) \/ \E d \in Downloaders : e \in downloaded_events[d])
            => raw[e].state = "complete"

\* The date is inside the lookback window of the process time t: not more than 14
\* days before t, and not after t.
WithinLookback(t, date) ==
    /\ date # NoDate
    /\ t - LookbackDays * SecondsPerDay <= date
    /\ date <= t

\* C9 (as claimed): load_all_events returns no event held outside the window, no
\* such event is ever ledgered, and it returns every event held inside the window
\* whose id is not ledgered.  (The clock stands still in SpecDiscover.)
SkipRule ==
    \A d \in Downloaders :
        /\ \A e \in downloaded_events[d] : WithinLookback(now, source_date[e])
        /\ pc[d] = "loop" =>
              \A e \in Range(recent_events[d]) : WithinLookback(now, source_date[e])
        /\ (pc[d] = "loop" /\ idx[d] = 1) =>
              \A e \in catalog :
                  (WithinLookback(now, source_date[e]) /\ e \notin downloaded_events[d])
                      => e \in Range(recent_events[d])

\* C5 (as claimed): a video is in the publish ledger, in memory or in the file, only
\* if the Cablecast server has completed its upload.
LedgeredAccepted ==
    \A f \in Videos :
        (f \in Range(upload_log_file.lines) \/ \E u \in Uploaders : f \in uploaded_files[u])
            => f \in accepted

StableBeforeTransform ==
    \A x \in transcoded : x.size > MinSizeBytes /\ x.age > QuietPeriod

\* C10 (as claimed): at most one pass is in flight.
NoOverlap == Cardinality({f \in Flows : InFlight(f)}) <= 1

\* The number of entries of a ledger file that hold the key x.
Entries(file, x) == Cardinality({k \in 1..Len(file.lines) : file.lines[k] = x})

\* C8: a step that records a completion, for the first or for a repeated time,
\* leaves exactly one entry for it in the ledger file and has it in the memory of
\* the recording object, for event ids and for uploaded paths alike.
LedgerAtMostOnce ==
    [][/\ \A e \in catalog :
            acquired'[e] # acquired[e] =>
                /\ Entries(downloaded_file', e) = 1
                /\ \E d \in Downloaders :
                      pc[d] = "loop" /\ e \in downloaded_events'[d]
       /\ \A f \in Videos :
            published'[f] # published[f] =>
                /\ Entries(upload_log_file', f) = 1
                /\ \E u \in Uploaders :
                      upc[u] = "loop" /\ f \in uploaded_files'[u]]_vars

\* C8 witness: an event id and a path were each recorded twice, and each has one
\* entry in its file.
RecordedTwice ==
    /\ \E e \in catalog : acquired[e] = 2 /\ Entries(downloaded_file, e) = 1
    /\ \E f \in Videos : published[f] = 2 /\ Entries(upload_log_file, f) = 1

\* The downloader object d has a download of event e in progress: a slot for e
\* whose tab is open.
Acquiring(d, e) ==
    \E k \in 1..Len(downloading_tabs[d]) :
        /\ downloading_tabs[d][k].event_number = e
        /\ downloading_tabs[d][k].tab \in Range(window_handles[d])

\* C11 (as claimed): at most one flow is acquiring a given event id at any time.
OneFlowPerEvent ==
    \A e \in catalog : Cardinality({d \in Downloaders : Acquiring(d, e)}) <= 1

\* C12 (as claimed): an event whose acquisition ended for lack of media is in the
\* acquire ledger of the object that attempted it.
NotFoundLedgered ==
    attempt.outcome \in {"no_media_button", "no_video_link"}
        => attempt.event \in downloaded_events[attempt.by]

\* C13 (as claimed): an event whose process_single_meeting call returned False is
\* not in the acquire ledger of the object that attempted it.
FailureNotLedgered ==
    (attempt.by # 0 /\ ~attempt.ok)
        => attempt.event \notin downloaded_events[attempt.by]

\* C14 (as claimed): when the rewrite of the ledger file fails, the acquisition is
\* reported as failed and the event is not in the ledger of the recording object.
WriteFailureSurfaced ==
    attempt.disk # "ok"
        => (~attempt.ok /\ attempt.event \notin downloaded_events[attempt.by])

\* C15 (as claimed): no step starts the download of an event whose id is in the
\* ledger file, whether the file could be read at construction or not.
NoReprocessOnReadError ==
    [][\A e \in catalog :
          acquired'[e] # acquired[e] => e \notin Range(downloaded_file.lines)]_vars

\* C16 (as claimed): every step leaves the ledger file as it was or holding the
\* complete new contents, the ids of the recording object and the new id.
AtomicRewrite ==
    [][\/ downloaded_file' = downloaded_file
       \/ \E d \in Downloaders :
             /\ pc[d] = "loop"
             /\ downloaded_file' =
                   save_downloaded_events(downloaded_events[d] \cup {recent_events[d][idx[d]]})]_vars

\* C17 (as claimed): the ledger file holds the id of every event whose download an
\* object has recorded, however the recordings of several objects interleave.
EveryRecordPersisted ==
    \A e \in catalog : acquired[e] >= 1 => e \in Range(downloaded_file.lines)

\* C18 (as claimed): a scan that has ended has attempted every one of its
\* candidates, whatever failed for some of them.
EveryCandidateAttempted ==
    \A d \in Downloaders : pc[d] = "idle" => idx[d] = Len(recent_events[d]) + 1

\* C19 (as claimed): once stop_auto_sync has run, the polling loop starts no pass,
\* and a pass of the auto sync thread that is in flight is never cut off: the
\* thread does not die inside a pass.
StopIsCooperative ==
    [][/\ ~running => ~(flow["auto"] = "poll" /\ flow'["auto"] = "download")
       /\ InFlight("auto") => flow'["auto"] # "dead"]_vars

\* The uploader object u is inside wait_for_upload_slots: at the head of a loop
\* iteration with every slot of the pool taken.
WaitingForSlot(u) == upc[u] = "loop" /\ Len(uploading_tabs[u]) >= max_concurrent

\* The time u has been waiting: the time since it took the newest of its slots.
WaitedFor(u) ==
    now - Max({uploading_tabs[u][k].start_time : k \in 1..Len(uploading_tabs[u])})

\* Timeouts a caller may give to the wait for a slot: one polling period, five
\* minutes.
AcquireTimeouts == {PollSeconds, QuietPeriod}

\* C20 (as claimed): whatever timeout the caller gives, an object that finds the
\* pool full has stopped waiting when the timeout has elapsed.
AcquireTimesOut ==
    \A timeout \in AcquireTimeouts :
        \A u \in Uploaders : WaitingForSlot(u) => WaitedFor(u) <= timeout

\* C21 (as claimed): a video whose upload was recorded once is never uploaded
\* again by a later session over the unchanged files.
PublishedOnce == \A f \in Videos : published[f] <= 1

\* C22 (as claimed): convert_video returned True only for events whose output file
\* was written by an ffmpeg run that exited with 0 and is larger than 1000 bytes.
TransformedIsSound == \A e \in convert_success : converted[e] = "ok"

\* The events whose raw file a run of process_downloaded_files handed to ffmpeg.
Ran(runs) == {x.event : x \in runs}

\* C23 (as claimed): a run of process_downloaded_files hands to ffmpeg again every
\* raw file for which convert_video failed in the run before.
FailedTransformRetried ==
    [][transcoded' # transcoded =>
          \A e \in Ran(transcoded) \ convert_success : e \in Ran(transcoded')]_vars

\* The tabs of s are closed in the step.
Closed(s, handles) == \A g \in s : g.tab \notin Range(handles)

SchedulersIsolated ==
    [][/\ (flow["menu"] = "prompt" /\ flow'["menu"] = "prompt" /\ running' = FALSE) =>
            \A k \in 1..Len(jobs) :
                jobs[k].by # "auto" => \E j \in 1..Len(jobs') : jobs'[j].by = jobs[k].by
       /\ \A k \in 1..Len(jobs') : jobs'[k].ran_by \in {"nobody", jobs'[k].by}]_vars

\* C27 (as claimed): an id once in the acquire ledger and a file once in the publish
\* ledger stay there over every step, so that no later pass takes the item for one
\* that is not completed.
StageMonotone ==
    [][/\ \A e \in catalog :
            Entries(downloaded_file, e) > 0 => Entries(downloaded_file', e) > 0
       /\ \A f \in DOMAIN watch :
            Entries(upload_log_file, f) > 0 => Entries(upload_log_file', f) > 0]_vars

\* C28: a run of process_downloaded_files leaves every raw file and every download
\* folder as it was, and no step changes an output file that exists in
\* corrected_format, whatever ffmpeg would do with it.
OutputsWrittenOnce ==
    [][/\ (transcoded' # transcoded \/ convert_success' # convert_success
                \/ converted' # converted) => raw' = raw
       /\ \A e \in catalog : converted[e] # "none" => converted'[e] = converted[e]]_vars

\* C28 witness: the last run of process_downloaded_files met an output left by a
\* killed ffmpeg run and returned True for it without running ffmpeg, and it handed
\* another raw file to ffmpeg, which is still there with its size.
SkippedExistingOutput ==
    \E e \in convert_success :
        /\ converted[e] = "partial"
        /\ e \notin Ran(transcoded)
        /\ \E x \in transcoded : raw[x.event].state # "none" /\ raw[x.event].size = x.size

\* C29 (as claimed): a scan that ends because the listing failed or gave no candidates
\* has still run process_downloaded_files: every raw video file without an output
\* has been handed to ffmpeg by it, at its present age.
DiscoveryFailureStillTransforms ==
    [][\A d \in Downloaders :
          (pc[d] = "idle" /\ pc'[d] = "idle" /\ session'[d] = session[d] + 1) =>
              \A e \in VideoFiles(raw) :
                  converted[e] = "none" =>
                      [event |-> e, size |-> raw[e].size, age |-> now - raw[e].mtime]
                          \in transcoded']_vars

\* C30 (as claimed): a thread is in the upload phase of a sync cycle, or in the wait
\* before it, only if the download scan of the cycle ran to its end.
UploadOnlyAfterSuccess ==
    \A f \in Flows : flow[f] \in {"stabilise", "upload"} => scan_outcome[f] = "completed"

\* C31 (as claimed): the corrected_format folder of every output convert_video has
\* written is one of the folders find_files_to_upload looks into.
OutputsUnderWatchPath ==
    \A e \in catalog :
        converted[e] # "none" =>
            corrected_folder_of(script_dir, e) \in corrected_folders_scanned(catalog)

\* C32 (as claimed): every event whose id is in downloaded_events.txt is transformed
\* at some later time, i.e. a sound output of it exists in corrected_format.
LedgeredEventuallyTransformed ==
    \A e \in 1..MaxEvents :
        (Entries(downloaded_file, e) > 0) ~> (converted[e] = "ok")

\* C33 (as claimed): every slot of downloading_tabs and of uploading_tabs names a tab
\* that is open in the object's browser, and between passes, when the driver has
\* quit, the slot lists are empty.
SlotsMatchOpenTabs ==
    /\ \A d \in Downloaders :
          /\ \A g \in Range(downloading_tabs[d]) : g.tab \in Range(window_handles[d])
          /\ pc[d] = "idle" => downloading_tabs[d] = <<>>
    /\ \A u \in Uploaders :
          /\ \A g \in Range(uploading_tabs[u]) : g.tab \in Range(upload_handles[u])
          /\ upc[u] = "idle" => uploading_tabs[u] = <<>>

\* C34 (as claimed): a browser never has more than 10 tabs open besides its main tab,
\* and every tab besides the main tab belongs to a slot of the pool.
OpenTabsBounded ==
    /\ \A d \in Downloaders :
          /\ Len(window_handles[d]) <= 10 + 1
          /\ \A k \in 2..Len(window_handles[d]) :
                \E g \in Range(downloading_tabs[d]) : g.tab = window_handles[d][k]
    /\ \A u \in Uploaders :
          /\ Len(upload_handles[u]) <= 10 + 1
          /\ \A k \in 2..Len(upload_handles[u]) :
                \E g \in Range(uploading_tabs[u]) : g.tab = upload_handles[u][k]

\* C35 (as claimed): a step closes the tab of a slot only if the slot is older than
\* 5 minutes (downloads) or 12 minutes (uploads), or the browser has more than 10
\* windows.
NoPrematureReclaim ==
    [][/\ \A d \in Downloaders : \A g \in Range(downloading_tabs[d]) :
            (g.tab \in Range(window_handles[d]) /\ g.tab \notin Range(window_handles'[d])) =>
                \/ now' - g.start_time > 5 * 60
                \/ Len(window_handles[d]) > 10
       /\ \A u \in Uploaders : \A g \in Range(uploading_tabs[u]) :
            (g.tab \in Range(upload_handles[u]) /\ g.tab \notin Range(upload_handles'[u])) =>
                \/ now' - g.start_time > 12 * 60
                \/ Len(upload_handles[u]) > 10]_vars

\* C36 (as claimed): a step in which an object records a download or an upload and
\* saves its ledger keeps in the ledger file every entry the file held before,
\* whichever object had written it.
SharedLedgerMonotone ==
    [][/\ acquired' # acquired =>
            Range(downloaded_file.lines) \subseteq Range(downloaded_file'.lines)
       /\ published' # published =>
            Range(upload_log_file.lines) \subseteq Range(upload_log_file'.lines)]_vars

\* C37 (as claimed): while the job of the auto sync is registered, i.e. the auto sync
\* was started and not stopped since, its thread is alive to run it.
RestartedSchedulerRuns ==
    (\E k \in 1..Len(jobs) : jobs[k].by = "auto") => flow["auto"] # "dead"

\* C38 (as claimed): a loop iteration whose start_download call returned False adds
\* nothing to downloaded_events and no slot to downloading_tabs, and an iteration
\* whose upload_file call returned False adds nothing to uploaded_files and no slot
\* to uploading_tabs.
FailedActionChangesNothing ==
    [][/\ \A d \in Downloaders :
            (/\ pc[d] = "loop" /\ idx'[d] # idx[d] /\ attempt'.by = d
             /\ attempt'.outcome \in StartOutcomes /\ ~attempt'.ok) =>
                /\ downloaded_events'[d] = downloaded_events[d]
                /\ Range(downloading_tabs'[d]) \subseteq Range(downloading_tabs[d])
       /\ \A u \in Uploaders :
            (upc[u] = "loop" /\ uidx'[u] # uidx[u] /\ published' = published) =>
                /\ uploaded_files'[u] = uploaded_files[u]
                /\ Range(uploading_tabs'[u]) \subseteq Range(uploading_tabs[u])]_vars

\* C39: the ids an object loads from the text save_downloaded_events has written
\* are exactly the ids saved, and the paths it loads from what save_upload_history
\* has written are exactly the paths saved, for every set including the empty one.
LedgerRoundTrip ==
    roundtrip.phase = "loaded" =>
        /\ roundtrip.loaded = roundtrip.ids
        /\ roundtrip.uploaded = roundtrip.files

\* C39 witness: a set with the ids 1 and 10, of which one is the beginning of the
\* other, and with a path has been saved and loaded.
RoundTripDone ==
    /\ roundtrip.phase = "loaded"
    /\ {Digits(1), Digits(10)} \subseteq roundtrip.ids
    /\ roundtrip.files # {}

\* C40: under fair scheduling with the clock advancing, every publish pass that is
\* under way ends: the wait for a free slot returns once the tracked slots are older
\* than 12 minutes, and the final wait gives up after 20 cleanup rounds.
PublishPassTerminates ==
    \A u \in Uploaders : (upc[u] \in {"loop", "final"}) ~> (upc[u] = "idle")

\* A pass that filled the pool, waited until its slots expired, published the
\* eleventh file, sat through all 20 final rounds and ended.
PassEndedAfterBothWaits ==
    /\ upc[1] = "idle"
    /\ usession[1] >= 1
    /\ uidx[1] = PoolFiles + 1
    /\ cleanup_rounds[1] = max_cleanup_rounds
    /\ now > Today + UploadTtl + max_cleanup_rounds * PollSeconds

====
